---- MODULE Spec2Model ----
(***************************************************************************)
(* The quiz session engine of server/routes.ts over the durable store of   *)
(* DatabaseStorage (attached_assets/auth_1750405429735.ts) and the tables  *)
(* of shared/schema.ts.                                                    *)
(*                                                                         *)
(* The durable store is modelled table by table (users, games,             *)
(* game_questions, game_participants, game_answers), the WebSocket         *)
(* registry as the `connections` map, and every HTTP handler twice from    *)
(* the same operators: once run to completion (requests served one after   *)
(* the other) and once split at its awaits (requests interleaved).         *)
(***************************************************************************)
EXTENDS Integers, Sequences, FiniteSets, TLC

(***************************************************************************)
(* Bounds of the model.                                                    *)
(***************************************************************************)
MaxAnswers == 3
MaxParticipants == 2
MaxClock == 2
MaxInbox == 2

(***************************************************************************)
(* Domains the requests draw their inputs from.                            *)
(***************************************************************************)
Users == {1, 2}
GameIds == {1, 2}
Socks == {1, 2, 3}
Options == {"A", "B"}
TimeSpents == {3}
Undefined == [undefined |-> TRUE]

(***************************************************************************)
(* The questions table (seeded content, never written by the engine).      *)
(***************************************************************************)
DefaultPoints == 10
DefaultTotalQuestions == 10
DefaultLimit == 10
QuestionIds == {1, 2}
QuestionBank ==
    [q \in QuestionIds |->
        [id |-> q,
         questionText |-> IF q = 1 THEN "text1" ELSE "text2",
         correctAnswer |-> IF q = 1 THEN "A" ELSE "B",
         options |-> Options,
         explanation |-> IF q = 1 THEN "why1" ELSE "why2",
         cultureId |-> q,
         categoryId |-> 1,
         difficulty |-> IF q = 1 THEN "easy" ELSE "hard",
         points |-> IF q = 1 THEN DefaultPoints ELSE 5]]

VARIABLES
    users,          \* users table: userId -> aggregate stats
    games,          \* games table: sequence of rows, the id is the index
    gameQuestions,  \* game_questions rows, in insertion order
    participants,   \* game_participants rows, in insertion order
    answers,        \* game_answers rows, in insertion order
    clock,          \* the latest time new Date() returned
    sockets,        \* the WebSocket objects: readyState and the id its handlers closed over
    connections,    \* the connections map: connectionId -> {ws, userId, gameId}
    inbox,          \* per socket, the messages ws.send put on the wire
    resp,           \* the last HTTP response
    reqs            \* requests in flight (interleaved execution): slot -> frame

db == <<users, games, gameQuestions, participants, answers>>
ws == <<sockets, connections, inbox>>
vars == <<users, games, gameQuestions, participants, answers, clock, sockets,
          connections, inbox, resp, reqs>>

Slots == {1, 2}
Idle == [op |-> "idle"]
NoResp == [op |-> "none", code |-> 0]

(***************************************************************************)
(* Generic helpers.                                                        *)
(***************************************************************************)
RECURSIVE SumPoints(_)
SumPoints(rows) ==
    IF rows = <<>> THEN 0 ELSE Head(rows).pointsEarned + SumPoints(Tail(rows))

Max(a, b) == IF a >= b THEN a ELSE b
Min(a, b) == IF a <= b THEN a ELSE b

\* A row of the users table as POST /api/users leaves it: the table's defaults,
\* or the streak columns of the request (insertUserSchema omits only id,
\* createdAt and updatedAt).
UserRow(userData) ==
    [totalPoints |-> 0,
     questionsAnswered |-> 0,
     gamesPlayed |-> 0,
     currentStreak |-> 0,
     bestStreak |-> userData.bestStreak]

UserDatas == {[bestStreak |-> 0], [bestStreak |-> 2]}

\* The users are there from the start: they are created ahead of any game.
Init ==
    /\ users \in [Users -> {UserRow(userData) : userData \in UserDatas}]
    /\ games = <<>>
    /\ gameQuestions = <<>>
    /\ participants = <<>>
    /\ answers = <<>>
    /\ clock = 1
    /\ sockets = [s \in Socks |-> [state |-> "new", cid |-> 0]]
    /\ connections = [c \in {} |-> 0]
    /\ inbox = [s \in Socks |-> <<>>]
    /\ resp = NoResp
    /\ reqs = [r \in Slots |-> Idle]

(***************************************************************************)
(* DatabaseStorage: the store's operations, each a pure function of the    *)
(* table it reads or writes.                                               *)
(***************************************************************************)
getUser(tbl, id) == IF id \in DOMAIN tbl THEN tbl[id] ELSE Undefined

updateUserStats(tbl, userId, stats) ==
    [u \in DOMAIN tbl |-> IF u = userId THEN stats ELSE tbl[u]]

getGame(tbl, id) == IF id \in DOMAIN tbl THEN tbl[id] ELSE Undefined

\* INSERT INTO games VALUES (gameData) RETURNING *: the columns the request
\* leaves out take the defaults of the games table.
GameRow(id, gameData) ==
    [id |-> id,
     status |-> gameData.status,
     totalQuestions |-> gameData.totalQuestions,
     maxPlayers |-> gameData.maxPlayers,
     currentQuestion |-> 0,
     startedAt |-> 0,
     completedAt |-> 0]

createGame(tbl, gameData) == Append(tbl, GameRow(Len(tbl) + 1, gameData))

updateGameStatus(tbl, id, status, currentQuestion, now) ==
    [g \in DOMAIN tbl |->
        IF g # id THEN tbl[g]
        ELSE [tbl[g] EXCEPT
                !.status = status,
                !.currentQuestion = currentQuestion,
                !.startedAt = IF status = "active" THEN now ELSE @,
                !.completedAt = IF status = "completed" THEN now ELSE @]]

ParticipantRow(participantData) ==
    [gameId |-> participantData.gameId,
     userId |-> participantData.userId,
     score |-> 0,
     correctAnswers |-> 0,
     questionsAnswered |-> 0,
     completedAt |-> 0]

addGameParticipant(tbl, participantData) ==
    Append(tbl, ParticipantRow(participantData))

getGameParticipants(tbl, gameId) ==
    SelectSeq(tbl, LAMBDA p : p.gameId = gameId)

updateParticipantScore(tbl, gameId, userId, score, correctAnswers) ==
    [i \in DOMAIN tbl |->
        IF tbl[i].gameId = gameId /\ tbl[i].userId = userId
        THEN [tbl[i] EXCEPT !.score = score, !.correctAnswers = correctAnswers]
        ELSE tbl[i]]

getQuestion(id) == IF id \in QuestionIds THEN QuestionBank[id] ELSE Undefined

\* An optional argument is <<>> when it is undefined and <<v>> when it is v.
\* if (x): undefined, 0 and '' do not count.
TruthyNumber(x) == x # <<>> /\ x[1] # 0
TruthyString(x) == x # <<>> /\ x[1] # ""

\* The rows the WHERE clause of getRandomQuestions keeps.
Matching(cultureId, categoryId, difficulty) ==
    {q \in QuestionIds :
        /\ TruthyNumber(cultureId) => QuestionBank[q].cultureId = cultureId[1]
        /\ TruthyNumber(categoryId) => QuestionBank[q].categoryId = categoryId[1]
        /\ TruthyString(difficulty) => QuestionBank[q].difficulty = difficulty[1]}

\* ORDER BY RANDOM() LIMIT limit: every order of every choice of limit rows
\* (all of them, when fewer match) is a possible result.
getRandomQuestions(cultureId, categoryId, difficulty, limit) ==
    LET pool == Matching(cultureId, categoryId, difficulty)
        k == Min(limit, Cardinality(pool))
    IN  {[i \in 1..k |-> QuestionBank[qs[i]]] :
            qs \in {f \in [1..k -> pool] :
                       \A i, j \in 1..k : i # j => f[i] # f[j]}}

recordAnswer(tbl, answerData) == Append(tbl, answerData)

getGameAnswers(tbl, gameId, userId) ==
    SelectSeq(tbl, LAMBDA a : a.gameId = gameId /\ a.userId = userId)

\* The foreign keys of game_participants and game_answers: an insert naming a
\* game or a user that has no row is refused by the database.
ForeignKeysHold(gameId, userId) ==
    /\ gameId \in DOMAIN games
    /\ userId \in DOMAIN users

(***************************************************************************)
(* GameService.getGameWithDetails and                                      *)
(* QuestionGenerator.generateQuestionsForGame: their files are not part of *)
(* the sources at hand; both follow the design document.                   *)
(***************************************************************************)
\* The orders QuestionSelector can draw: count questions of the bank without
\* replacement, or all of them when the bank holds fewer.
Draws(count) ==
    LET k == Min(count, Cardinality(QuestionIds))
    IN  {qs \in [1..k -> QuestionIds] : \A i, j \in 1..k : i # j => qs[i] # qs[j]}

\* The rows of a draw numbered from 1.
generateQuestionsFromOne(tbl, gameId, qs) ==
    tbl \o [i \in 1..Len(qs) |->
               [gameId |-> gameId, questionId |-> qs[i], orderIndex |-> i]]

\* The GameQuestion rows of a draw, numbered from 0 in draw order.
generateQuestionsForGame(tbl, gameId, qs) ==
    tbl \o [i \in 1..Len(qs) |->
               [gameId |-> gameId, questionId |-> qs[i], orderIndex |-> i - 1]]

getGameQuestions(tbl, gameId) == SelectSeq(tbl, LAMBDA gq : gq.gameId = gameId)

\* A question as the aggregate view shows it: prompt and options.
QuestionView(gq, orderIndex) ==
    [id |-> gq,
     orderIndex |-> orderIndex,
     questionText |-> QuestionBank[gq].questionText,
     options |-> QuestionBank[gq].options]

getGameWithDetails(tbl, gameId) ==
    IF getGame(tbl, gameId) = Undefined THEN Undefined
    ELSE [game |-> getGame(tbl, gameId),
          participants |-> getGameParticipants(participants, gameId),
          questions |->
              LET rows == getGameQuestions(gameQuestions, gameId)
              IN  [i \in DOMAIN rows |->
                      QuestionView(rows[i].questionId, rows[i].orderIndex)]]

(***************************************************************************)
(* broadcastToGame (routes.ts): one ws.send per registered connection      *)
(* bound to the game whose socket is open, the excluded id apart.          *)
(***************************************************************************)
\* The fan-out without the readyState test.
RecipientsAnyState(gameId, excludeConnectionId) ==
    {c \in DOMAIN connections :
        /\ connections[c].gameId = gameId
        /\ c # excludeConnectionId}

\* The fan-out given up as a whole when one bound socket is not open.
RecipientsAllOrNothing(gameId, excludeConnectionId) ==
    IF \E c \in DOMAIN connections :
          /\ connections[c].gameId = gameId
          /\ c # excludeConnectionId
          /\ sockets[connections[c].ws].state # "open"
    THEN {}
    ELSE {c \in DOMAIN connections :
            connections[c].gameId = gameId /\ c # excludeConnectionId}

\* The fan-out putting the newest message first.
broadcastNewestFirst(gameId, message, excludeConnectionId) ==
    [s \in Socks |->
        IF \E c \in DOMAIN connections :
              /\ connections[c].gameId = gameId
              /\ c # excludeConnectionId
              /\ sockets[connections[c].ws].state = "open"
              /\ connections[c].ws = s
        THEN <<message>> \o inbox[s]
        ELSE inbox[s]]

Recipients(gameId, excludeConnectionId) ==
    {c \in DOMAIN connections :
        /\ connections[c].gameId = gameId
        /\ c # excludeConnectionId
        /\ sockets[connections[c].ws].state = "open"}

broadcastToGame(gameId, message, excludeConnectionId) ==
    [s \in Socks |->
        IF \E c \in Recipients(gameId, excludeConnectionId) : connections[c].ws = s
        THEN Append(inbox[s], message)
        ELSE inbox[s]]

\* The model's cap on the length of an inbox.
RoomFor(gameId, excludeConnectionId) ==
    \A c \in Recipients(gameId, excludeConnectionId) :
        Len(inbox[connections[c].ws]) < MaxInbox

(***************************************************************************)
(* POST /api/games/:id/answer, the computations between its awaits.        *)
(***************************************************************************)
\* The comparison made on upper-cased strings.
UpperCase(str) == IF str = "a" THEN "A" ELSE IF str = "b" THEN "B" ELSE str

IsCorrectIgnoringCase(selectedAnswer, question) ==
    UpperCase(selectedAnswer) = UpperCase(question.correctAnswer)

IsCorrect(selectedAnswer, question) == selectedAnswer = question.correctAnswer

PointsEarned(isCorrect, question) == IF isCorrect THEN question.points ELSE 0

AnswerData(gameId, userId, questionId, selectedAnswer, timeSpent) ==
    LET question == getQuestion(questionId)
        isCorrect == IsCorrect(selectedAnswer, question)
    IN  [gameId |-> gameId,
         userId |-> userId,
         questionId |-> questionId,
         selectedAnswer |-> selectedAnswer,
         isCorrect |-> isCorrect,
         timeSpent |-> timeSpent,
         pointsEarned |-> PointsEarned(isCorrect, question)]

\* answers is what getGameAnswers returned after recordAnswer.
TotalScore(rows, pointsEarned) == SumPoints(rows) + pointsEarned

CorrectCount(rows, isCorrect) ==
    Len(SelectSeq(rows, LAMBDA a : a.isCorrect)) + (IF isCorrect THEN 1 ELSE 0)

\* x || 10
OrTen(x) == IF x = 0 THEN DefaultTotalQuestions ELSE x

IsLastQuestion(game, rows) ==
    /\ game # Undefined
    /\ Len(rows) + 1 >= OrTen(game.totalQuestions)

\* The stats of a completion that leave bestStreak alone.
CompletedStatsKeepsBest(user, totalScore, game) ==
    [totalPoints |-> user.totalPoints + totalScore,
     questionsAnswered |-> user.questionsAnswered + OrTen(game.totalQuestions),
     gamesPlayed |-> user.gamesPlayed + 1,
     currentStreak |-> user.currentStreak + 1,
     bestStreak |-> user.bestStreak]

CompletedStats(user, totalScore, game) ==
    [totalPoints |-> user.totalPoints + totalScore,
     questionsAnswered |-> user.questionsAnswered + OrTen(game.totalQuestions),
     gamesPlayed |-> user.gamesPlayed + 1,
     currentStreak |-> user.currentStreak + 1,
     bestStreak |-> Max(user.bestStreak, user.currentStreak + 1)]

AnswerResponse(answerData) ==
    [op |-> "answer",
     code |-> 200,
     isCorrect |-> answerData.isCorrect,
     pointsEarned |-> answerData.pointsEarned,
     explanation |-> QuestionBank[answerData.questionId].explanation,
     correctAnswer |-> QuestionBank[answerData.questionId].correctAnswer]

Failure(op, code) == [op |-> op, code |-> code]

(***************************************************************************)
(* The handlers, each run to completion.                                   *)
(***************************************************************************)
\* POST /api/games
CreateGame(gameData, qs) ==
    /\ IF ~gameData.valid
       THEN /\ resp' = Failure("create", 400)
            /\ UNCHANGED <<games, gameQuestions>>
       ELSE /\ qs \in Draws(OrTen(gameData.totalQuestions))
            /\ games' = createGame(games, gameData)
            /\ gameQuestions' = generateQuestionsForGame(gameQuestions,
                                     Len(games) + 1, qs)
            /\ resp' = [op |-> "create", code |-> 201, questionsCount |-> Len(qs)]
    /\ UNCHANGED <<users, participants, answers, clock, ws, reqs>>

\* POST /api/games when generateQuestionsForGame throws: the game row is
\* inserted by then, and the catch block answers 400.
CreateGameFailsToMaterialize(gameData) ==
    /\ gameData.valid
    /\ games' = createGame(games, gameData)
    /\ resp' = Failure("create", 400)
    /\ UNCHANGED <<users, gameQuestions, participants, answers, clock, ws, reqs>>

PlayerJoinedMessage(participant, user) ==
    [type |-> "player_joined", participant |-> participant, user |-> user]

\* A join that is open in the lobby only.
JoinGameLobbyOnly(gameId, userId) ==
    /\ Len(participants) < MaxParticipants
    /\ RoomFor(gameId, 0)
    /\ IF ~ForeignKeysHold(gameId, userId) \/ games[gameId].status # "waiting"
       THEN /\ resp' = Failure("join", 400)
            /\ UNCHANGED <<participants, inbox>>
       ELSE /\ participants' = addGameParticipant(participants,
                                    [gameId |-> gameId, userId |-> userId])
            /\ inbox' = broadcastToGame(gameId,
                            PlayerJoinedMessage(
                                ParticipantRow([gameId |-> gameId, userId |-> userId]),
                                getUser(users, userId)), 0)
            /\ resp' = [op |-> "join", code |-> 201]
    /\ UNCHANGED <<users, games, gameQuestions, answers, clock, sockets,
                   connections, reqs>>

\* POST /api/games/:id/join
JoinGame(gameId, userId) ==
    /\ Len(participants) < MaxParticipants
    /\ RoomFor(gameId, 0)
    /\ IF ~ForeignKeysHold(gameId, userId)
       THEN /\ resp' = Failure("join", 400)
            /\ UNCHANGED <<participants, inbox>>
       ELSE /\ participants' = addGameParticipant(participants,
                                    [gameId |-> gameId, userId |-> userId])
            /\ inbox' = broadcastToGame(gameId,
                            PlayerJoinedMessage(
                                ParticipantRow([gameId |-> gameId, userId |-> userId]),
                                getUser(users, userId)), 0)
            /\ resp' = [op |-> "join", code |-> 201]
    /\ UNCHANGED <<users, games, gameQuestions, answers, clock, sockets,
                   connections, reqs>>

\* GET /api/games/:id
GetGame(gameId) ==
    /\ LET game == getGameWithDetails(games, gameId)
       IN  resp' = IF game = Undefined THEN Failure("game", 404)
                   ELSE [op |-> "game", code |-> 200, game |-> game]
    /\ UNCHANGED <<db, clock, ws, reqs>>

\* limit ? parseInt(limit) : 10
LimitOrTen(limit) == IF limit = <<>> THEN DefaultLimit ELSE limit[1]

\* GET /api/questions/random
GetRandomQuestions(culture, category, difficulty, limit, questions) ==
    /\ questions \in getRandomQuestions(culture, category, difficulty,
                                         LimitOrTen(limit))
    /\ resp' = [op |-> "random", code |-> 200, questions |-> questions]
    /\ UNCHANGED <<db, clock, ws, reqs>>

\* The handler looking the first question up in the questions table instead
\* of taking it from the view.
GameStartedMessageFromBank(view) ==
    [type |-> "game_started",
     game |-> view,
     question |-> IF view = Undefined \/ view.questions = <<>>
                  THEN Undefined
                  ELSE getQuestion(view.questions[1].id)]

\* The handler indexing the questions by the game's currentQuestion.
GameStartedMessageCurrent(view) ==
    [type |-> "game_started",
     game |-> view,
     question |-> IF view = Undefined
                     \/ view.game.currentQuestion + 1 \notin DOMAIN view.questions
                  THEN Undefined
                  ELSE view.questions[view.game.currentQuestion + 1]]

GameStartedMessage(view) ==
    [type |-> "game_started",
     game |-> view,
     question |-> IF view = Undefined \/ view.questions = <<>>
                  THEN Undefined
                  ELSE view.questions[1]]

\* POST /api/games/:id/start
StartGame(gameId) ==
    /\ RoomFor(gameId, 0)
    /\ clock' \in {t \in {clock, clock + 1} : t <= MaxClock}
    /\ games' = updateGameStatus(games, gameId, "active", 1, clock')
    /\ inbox' = broadcastToGame(gameId,
                    GameStartedMessage(getGameWithDetails(games', gameId)), 0)
    /\ resp' = [op |-> "start", code |-> 200]
    /\ UNCHANGED <<users, gameQuestions, participants, answers, sockets,
                   connections, reqs>>

\* POST /api/games/:id/answer
SubmitAnswer(gameId, userId, questionId, selectedAnswer, timeSpent) ==
    /\ Len(answers) < MaxAnswers
    /\ IF getQuestion(questionId) = Undefined
       THEN /\ resp' = Failure("answer", 404)
            /\ UNCHANGED <<users, participants, answers>>
       ELSE IF ~ForeignKeysHold(gameId, userId)
       THEN /\ resp' = Failure("answer", 400)
            /\ UNCHANGED <<users, participants, answers>>
       ELSE LET answerData == AnswerData(gameId, userId, questionId,
                                         selectedAnswer, timeSpent)
                recorded == recordAnswer(answers, answerData)
                rows == getGameAnswers(recorded, gameId, userId)
                totalScore == TotalScore(rows, answerData.pointsEarned)
                correctCount == CorrectCount(rows, answerData.isCorrect)
                game == getGame(games, gameId)
                user == getUser(users, userId)
            IN  /\ answers' = recorded
                /\ participants' = updateParticipantScore(participants, gameId,
                                        userId, totalScore, correctCount)
                /\ users' = IF IsLastQuestion(game, rows) /\ user # Undefined
                            THEN updateUserStats(users, userId,
                                     CompletedStats(user, totalScore, game))
                            ELSE users
                /\ resp' = AnswerResponse(answerData)
    /\ UNCHANGED <<games, gameQuestions, clock, ws, reqs>>

(***************************************************************************)
(* The WebSocket server of routes.ts.                                      *)
(***************************************************************************)
\* wss.on('connection'): the new socket's handlers close over connectionId,
\* a random string that nothing keeps apart from the ids in use.
WsConnect(s, connectionId) ==
    /\ sockets[s].state = "new"
    /\ sockets' = [sockets EXCEPT ![s] = [state |-> "open", cid |-> connectionId]]
    /\ connections' =
          [c \in DOMAIN connections \cup {connectionId} |->
              IF c = connectionId THEN [ws |-> s, userId |-> 0, gameId |-> 0]
              ELSE connections[c]]
    /\ UNCHANGED <<db, clock, inbox, resp, reqs>>

\* ws.on('message'): frames keep arriving until 'close' is emitted, so the
\* handlers also run while the socket is closing.
\* data.type = 'join_game'
WsJoinGame(s, userId, gameId) ==
    /\ sockets[s].state \in {"open", "closing"}
    /\ LET connectionId == sockets[s].cid
       IN  connections' =
              IF connectionId \notin DOMAIN connections THEN connections
              ELSE [connections EXCEPT ![connectionId] =
                        [@ EXCEPT !.userId = userId, !.gameId = gameId]]
    /\ UNCHANGED <<db, clock, sockets, inbox, resp, reqs>>

\* ws.on('message'), data.type = 'game_update'
WsGameUpdate(s, payload) ==
    /\ sockets[s].state \in {"open", "closing"}
    /\ LET connectionId == sockets[s].cid
       IN  IF connectionId \in DOMAIN connections
              /\ connections[connectionId].gameId # 0
           THEN /\ RoomFor(connections[connectionId].gameId, connectionId)
                /\ inbox' = broadcastToGame(connections[connectionId].gameId,
                                            payload, connectionId)
           ELSE UNCHANGED inbox
    /\ UNCHANGED <<db, clock, sockets, connections, resp, reqs>>

\* A handler that gives the connection up on a frame it cannot read.
WsOtherMessageCloses(s) ==
    /\ sockets[s].state \in {"open", "closing"}
    /\ sockets' = [sockets EXCEPT ![s].state = "closed"]
    /\ connections' = [c \in DOMAIN connections \ {sockets[s].cid} |-> connections[c]]
    /\ UNCHANGED <<db, clock, inbox, resp, reqs>>

\* ws.on('message'), a frame that is no JSON or carries another type
WsOtherMessage(s) ==
    /\ sockets[s].state \in {"open", "closing"}
    /\ UNCHANGED vars

\* The transport goes down: readyState leaves OPEN before 'close' is emitted.
WsClosing(s) ==
    /\ sockets[s].state = "open"
    /\ sockets' = [sockets EXCEPT ![s].state = "closing"]
    /\ UNCHANGED <<db, clock, connections, inbox, resp, reqs>>

\* A close handler that leaves the registry alone.
WsCloseKeeps(s) ==
    /\ sockets[s].state \in {"open", "closing"}
    /\ sockets' = [sockets EXCEPT ![s].state = "closed"]
    /\ UNCHANGED <<db, clock, connections, inbox, resp, reqs>>

\* ws.on('close')
WsClose(s) ==
    /\ sockets[s].state \in {"open", "closing"}
    /\ sockets' = [sockets EXCEPT ![s].state = "closed"]
    /\ connections' = [c \in DOMAIN connections \ {sockets[s].cid} |-> connections[c]]
    /\ UNCHANGED <<db, clock, inbox, resp, reqs>>

(***************************************************************************)
(* The same handlers split at their awaits: every step is one operation of *)
(* the store, or the synchronous tail that answers the request.  A frame   *)
(* holds the handler's locals; a finished frame keeps its response.        *)
(***************************************************************************)
Done(frame, code) == [frame EXCEPT !.pc = "done"] @@ [code |-> code]

InFlight(r) == reqs[r] # Idle /\ reqs[r].pc # "done"

\* POST /api/games/:id/start, up to the UPDATE of updateGameStatus
StartUpdate(r, gameId) ==
    /\ reqs[r] = Idle
    /\ clock' \in {t \in {clock, clock + 1} : t <= MaxClock}
    /\ games' = updateGameStatus(games, gameId, "active", 1, clock')
    /\ reqs' = [reqs EXCEPT ![r] =
                   [op |-> "start", pc |-> "updated", gameId |-> gameId,
                    userId |-> 0, startedAt |-> clock']]
    /\ UNCHANGED <<users, gameQuestions, participants, answers, ws, resp>>

\* ... the read of getGameWithDetails
StartRead(r) ==
    /\ reqs[r].op = "start" /\ reqs[r].pc = "updated"
    /\ reqs' = [reqs EXCEPT ![r] =
                   [@ EXCEPT !.pc = "read"] @@
                   [view |-> getGameWithDetails(games, reqs[r].gameId)]]
    /\ UNCHANGED <<db, clock, ws, resp>>

\* ... the broadcast and the response
StartRespond(r) ==
    /\ reqs[r].op = "start" /\ reqs[r].pc = "read"
    /\ RoomFor(reqs[r].gameId, 0)
    /\ inbox' = broadcastToGame(reqs[r].gameId,
                    GameStartedMessage(reqs[r].view), 0)
    /\ resp' = [op |-> "start", code |-> 200]
    /\ reqs' = [reqs EXCEPT ![r] = Done(@, 200)]
    /\ UNCHANGED <<db, clock, sockets, connections>>

\* POST /api/games/:id/answer, up to the INSERT of recordAnswer
AnswerRecord(r, gameId, userId, questionId, selectedAnswer, timeSpent) ==
    /\ reqs[r] = Idle
    /\ Len(answers) < MaxAnswers
    /\ LET frame == [op |-> "answer", pc |-> "begun", gameId |-> gameId,
                     userId |-> userId, questionId |-> questionId]
       IN  IF getQuestion(questionId) = Undefined
           THEN /\ resp' = Failure("answer", 404)
                /\ reqs' = [reqs EXCEPT ![r] = Done(frame, 404)]
                /\ UNCHANGED answers
           ELSE IF ~ForeignKeysHold(gameId, userId)
           THEN /\ resp' = Failure("answer", 400)
                /\ reqs' = [reqs EXCEPT ![r] = Done(frame, 400)]
                /\ UNCHANGED answers
           ELSE LET answerData == AnswerData(gameId, userId, questionId,
                                             selectedAnswer, timeSpent)
                IN  /\ answers' = recordAnswer(answers, answerData)
                    /\ reqs' = [reqs EXCEPT ![r] =
                                   [frame EXCEPT !.pc = "recorded"] @@
                                   [answerData |-> answerData]]
                    /\ UNCHANGED resp
    /\ UNCHANGED <<users, games, gameQuestions, participants, clock, ws>>

\* ... the SELECT of getGameAnswers
AnswerRead(r) ==
    /\ reqs[r].op = "answer" /\ reqs[r].pc = "recorded"
    /\ LET rows == getGameAnswers(answers, reqs[r].gameId, reqs[r].userId)
       IN  reqs' = [reqs EXCEPT ![r] =
                       [@ EXCEPT !.pc = "read"] @@
                       [answers |-> rows,
                        totalScore |-> TotalScore(rows, reqs[r].answerData.pointsEarned),
                        correctCount |-> CorrectCount(rows, reqs[r].answerData.isCorrect)]]
    /\ UNCHANGED <<db, clock, ws, resp>>

\* ... the UPDATE of updateParticipantScore
AnswerScore(r) ==
    /\ reqs[r].op = "answer" /\ reqs[r].pc = "read"
    /\ participants' = updateParticipantScore(participants, reqs[r].gameId,
                            reqs[r].userId, reqs[r].totalScore, reqs[r].correctCount)
    /\ reqs' = [reqs EXCEPT ![r].pc = "scored"]
    /\ UNCHANGED <<users, games, gameQuestions, answers, clock, ws, resp>>

\* ... the reads of getGame and getUser
AnswerGetUser(r) ==
    /\ reqs[r].op = "answer" /\ reqs[r].pc = "scored"
    /\ LET game == getGame(games, reqs[r].gameId)
           user == getUser(users, reqs[r].userId)
       IN  IF IsLastQuestion(game, reqs[r].answers) /\ user # Undefined
           THEN /\ reqs' = [reqs EXCEPT ![r] =
                               [@ EXCEPT !.pc = "last"] @@
                               [game |-> game, user |-> user]]
                /\ UNCHANGED resp
           ELSE /\ reqs' = [reqs EXCEPT ![r] = Done(@, 200)]
                /\ resp' = AnswerResponse(reqs[r].answerData)
    /\ UNCHANGED <<db, clock, ws>>

\* ... the UPDATE of updateUserStats and the response
AnswerStats(r) ==
    /\ reqs[r].op = "answer" /\ reqs[r].pc = "last"
    /\ users' = updateUserStats(users, reqs[r].userId,
                    CompletedStats(reqs[r].user, reqs[r].totalScore, reqs[r].game))
    /\ reqs' = [reqs EXCEPT ![r] = Done(@, 200)]
    /\ resp' = AnswerResponse(reqs[r].answerData)
    /\ UNCHANGED <<games, gameQuestions, participants, answers, clock, ws>>

(***************************************************************************)
(* The inputs of the requests.                                             *)
(***************************************************************************)
HasParticipant(tbl, gameId, userId) ==
    \E i \in DOMAIN tbl : tbl[i].gameId = gameId /\ tbl[i].userId = userId

TwoSocks == {1, 2}
Statuses == {"waiting", "active", "completed"}
GameDatas ==
    [valid : BOOLEAN, status : Statuses, totalQuestions : {1, 2}, maxPlayers : {1}]
DrawInputs == UNION {Draws(n) : n \in {1, 2}}
QuestionInputs == QuestionIds \cup {0}
UserInputs == Users \cup {0}

\* The scoring of one game: a game is created, users join it and answer.
OneGame == games = <<>>

Next ==
    \/ \E gameData \in {d \in GameDatas : d.status = "waiting"},
          qs \in DrawInputs : OneGame /\ CreateGame(gameData, qs)
    \/ \E g \in GameIds, u \in UserInputs : JoinGame(g, u)
    \/ \E g \in GameIds, u \in UserInputs, q \in QuestionInputs, a \in Options,
          t \in TimeSpents : SubmitAnswer(g, u, q, a, t)

Spec == Init /\ [][Next]_vars

\* The game's lifecycle and its push events: a game of any stored status,
\* joined and started while sockets connect (each under an id of its own),
\* bind and close.
NextLifecycle ==
    \/ \E gameData \in GameDatas, qs \in DrawInputs :
          OneGame /\ CreateGame(gameData, qs)
    \/ \E gameData \in GameDatas :
          OneGame /\ CreateGameFailsToMaterialize(gameData)
    \/ \E g \in DOMAIN games : participants = <<>> /\ JoinGame(g, 1)
    \/ \E g \in GameIds : StartGame(g)
    \/ \E s \in TwoSocks : WsConnect(s, s)
    \/ \E s \in TwoSocks, g \in GameIds : WsJoinGame(s, s, g)
    \/ \E s \in TwoSocks : WsClose(s)

InitLifecycle == Init /\ \A u \in Users : users[u] = UserRow([bestStreak |-> 0])

SpecLifecycle == InitLifecycle /\ [][NextLifecycle]_vars

\* What the responses and the events show of the questions: the questions
\* are listed under filters, a game is created, read, joined, started and
\* answered, and sockets bound to it listen.
Cultures == {<<>>, <<0>>, <<1>>}
Categories == {<<>>, <<1>>}
Difficulties == {<<>>, <<"hard">>}
Limits == {<<>>, <<1>>}

NextQuestions ==
    \/ \E gameData \in {d \in GameDatas : d.valid /\ d.status = "waiting"
                                          /\ d.totalQuestions = 2},
          qs \in DrawInputs : OneGame /\ qs[1] = 1 /\ CreateGame(gameData, qs)
    \/ \E g \in DOMAIN games : participants = <<>> /\ JoinGame(g, 1)
    \/ \E g \in DOMAIN games : games[g].status = "waiting" /\ StartGame(g)
    \/ \E g \in DOMAIN games, q \in QuestionIds, a \in Options,
          t \in TimeSpents : SubmitAnswer(g, 1, q, a, t)
    \/ \E g \in GameIds : GetGame(g)
    \/ \E c \in Cultures, k \in Categories, d \in Difficulties, l \in Limits :
          \E questions \in getRandomQuestions(c, k, d, LimitOrTen(l)) :
              GetRandomQuestions(c, k, d, l, questions)
    \/ WsConnect(1, 1)
    \/ \E g \in DOMAIN games : WsJoinGame(1, 1, g)

SpecQuestions == InitLifecycle /\ [][NextQuestions]_vars

\* The scoring of single answers: one user answers the questions of a game
\* with answers of either case, after a short or a long time.
AnswerInputs == Options \cup {"a"}
TimeSpentInputs == {3, 30}

NextScoring ==
    \/ \E gameData \in {d \in GameDatas : d.valid /\ d.status = "waiting"},
          qs \in DrawInputs : OneGame /\ CreateGame(gameData, qs)
    \/ \E g \in DOMAIN games : participants = <<>> /\ JoinGame(g, 1)
    \/ \E g \in DOMAIN games, q \in QuestionIds, a \in AnswerInputs,
          t \in TimeSpentInputs : SubmitAnswer(g, 1, q, a, t)

SpecScoring == InitLifecycle /\ [][NextScoring]_vars

\* The registry and the fan-out: sockets connect under ids that may coincide,
\* bind, rebind, pass updates on, lose their transport and close, while a game
\* is joined and started.
ConnectionIds == {1, 2}
Payloads == {[type |-> "presence"]}
Binds == {[userId |-> 1, gameId |-> 1], [userId |-> 2, gameId |-> 2]}

NextPush ==
    \/ \E gameData \in {d \in GameDatas : d.valid /\ d.status = "waiting"
                                          /\ d.totalQuestions = 1},
          qs \in DrawInputs : OneGame /\ qs[1] = 1 /\ CreateGame(gameData, qs)
    \/ \E g \in DOMAIN games : participants = <<>> /\ JoinGame(g, 1)
    \/ \E g \in DOMAIN games : StartGame(g)
    \/ \E s \in TwoSocks, c \in ConnectionIds : WsConnect(s, c)
    \/ \E s \in TwoSocks, b \in Binds : WsJoinGame(s, b.userId, b.gameId)
    \/ \E s \in TwoSocks, payload \in Payloads : WsGameUpdate(s, payload)
    \/ \E s \in TwoSocks : WsOtherMessage(s)
    \/ \E s \in TwoSocks : WsClosing(s)
    \/ \E s \in TwoSocks : WsClose(s)

SpecPush == InitLifecycle /\ [][NextPush]_vars

\* The registry alone, three sockets on two ids: they connect, bind, pass
\* updates on and close.
NextUpdate ==
    \/ \E s \in Socks, c \in ConnectionIds : WsConnect(s, c)
    \/ \E s \in Socks, b \in Binds : WsJoinGame(s, b.userId, b.gameId)
    \/ \E s \in Socks, payload \in Payloads : WsGameUpdate(s, payload)
    \/ \E s \in Socks : WsClose(s)

SpecUpdate == InitLifecycle /\ [][NextUpdate]_vars

\* Two requests in flight at once, both for a game that exists: each slot
\* serves one request, the second arrives while the first is being served,
\* and the steps of the two interleave in any order.
Arrives(r) == r = 1 \/ InFlight(1)

NextInterleaved ==
    \/ \E gameData \in {d \in GameDatas : d.valid /\ d.status = "waiting"},
          qs \in DrawInputs : OneGame /\ CreateGame(gameData, qs)
    \/ \E g \in DOMAIN games : JoinGame(g, 1)
    \/ WsConnect(1, 1)
    \/ \E g \in DOMAIN games : WsJoinGame(1, 1, g)
    \/ \E r \in Slots, g \in GameIds : Arrives(r) /\ StartUpdate(r, g)
    \/ \E r \in Slots : StartRead(r)
    \/ \E r \in Slots : StartRespond(r)
    \/ \E r \in Slots, g \in DOMAIN games, q \in QuestionIds, a \in Options,
          t \in TimeSpents : Arrives(r) /\ AnswerRecord(r, g, 1, q, a, t)
    \/ \E r \in Slots : AnswerRead(r)
    \/ \E r \in Slots : AnswerScore(r)
    \/ \E r \in Slots : AnswerGetUser(r)
    \/ \E r \in Slots : AnswerStats(r)

SpecInterleaved == InitLifecycle /\ [][NextInterleaved]_vars

\* One user in two games of one question each: the user joins both and
\* answers in both, the second answer arriving while the first is served.
NextTwoGames ==
    \/ \E gameData \in {d \in GameDatas : d.valid /\ d.status = "waiting"
                                          /\ d.totalQuestions = 1},
          qs \in DrawInputs :
          Len(games) < 2 /\ qs[1] = 1 /\ CreateGame(gameData, qs)
    \/ \E g \in DOMAIN games :
          ~HasParticipant(participants, g, 1) /\ JoinGame(g, 1)
    \/ \E r \in Slots, g \in DOMAIN games, a \in Options, t \in TimeSpents :
          /\ Arrives(r)
          /\ HasParticipant(participants, g, 1)
          /\ AnswerRecord(r, g, 1, 1, a, t)
    \/ \E r \in Slots : AnswerRead(r)
    \/ \E r \in Slots : AnswerScore(r)
    \/ \E r \in Slots : AnswerGetUser(r)
    \/ \E r \in Slots : AnswerStats(r)

SpecTwoGames == InitLifecycle /\ [][NextTwoGames]_vars

(***************************************************************************)
(* What the claims speak of.                                               *)
(***************************************************************************)
SameKey(a, b) ==
    a.gameId = b.gameId /\ a.userId = b.userId /\ a.questionId = b.questionId

DistinctKeys(tbl) ==
    \A i, j \in DOMAIN tbl : i # j => ~SameKey(tbl[i], tbl[j])

AnsweredCount(tbl, gameId, userId) == Len(getGameAnswers(tbl, gameId, userId))

\* The submission is the one that takes the participant's answered-count to
\* the game's totalQuestions.
Completes(gameId, userId) ==
    /\ gameId \in DOMAIN games
    /\ AnsweredCount(answers, gameId, userId) < games[gameId].totalQuestions
    /\ AnsweredCount(answers', gameId, userId) >= games[gameId].totalQuestions

\* C1: after an accepted submitAnswer, the log holding pairwise distinct
\* (gameId, userId, questionId) keys, the stored score of the participant equals
\* the sum of pointsEarned over the Answer rows of that (gameId, userId).
C1_ScoreIsSumOfPoints ==
    [][\A g \in GameIds, u \in Users, q \in QuestionInputs, a \in Options,
          t \in TimeSpents :
          (SubmitAnswer(g, u, q, a, t) /\ resp'.code = 200 /\ DistinctKeys(answers'))
          => \A i \in DOMAIN participants' :
                (participants'[i].gameId = g /\ participants'[i].userId = u)
                => participants'[i].score = SumPoints(getGameAnswers(answers', g, u))]_vars

\* C2: in every reachable state the answer log holds at most one Answer row
\* for each (gameId, userId, questionId).
C2_OneAnswerPerKey == DistinctKeys(answers)

\* C3: a submitAnswer for a (gameId, userId, questionId) that already has an
\* Answer row fails and leaves the answer log, the participants and the users'
\* aggregate stats as they were.
C3_DuplicateRejected ==
    [][\A g \in GameIds, u \in Users, q \in QuestionIds, a \in Options,
          t \in TimeSpents :
          (/\ SubmitAnswer(g, u, q, a, t)
           /\ \E i \in DOMAIN answers :
                 SameKey(answers[i], [gameId |-> g, userId |-> u, questionId |-> q]))
          => /\ resp'.code # 200
             /\ UNCHANGED <<answers, participants, users>>]_vars

\* C4: a submitAnswer of (gameId, userId) changes the User aggregate exactly
\* when it takes that participant's answered-count to game.totalQuestions for
\* the first time: once per (gameId, userId), never before and never again.
C4_AggregateAppliedOnce ==
    [][\A g \in GameIds, u \in Users, q \in QuestionInputs, a \in Options,
          t \in TimeSpents :
          (SubmitAnswer(g, u, q, a, t) /\ HasParticipant(participants, g, u))
          => ((users'[u] # users[u]) <=> Completes(g, u))]_vars

\* C5: the submitAnswer that completes a participant's game changes the User
\* aggregate by exactly: totalPoints += the sum of pointsEarned of the
\* participant's Answer rows for the game, questionsAnswered +=
\* totalQuestions, gamesPlayed += 1, currentStreak += 1, bestStreak =
\* max(bestStreak, new currentStreak).
C5_CompletionDelta ==
    [][\A g \in GameIds, u \in Users, q \in QuestionInputs, a \in Options,
          t \in TimeSpents :
          (/\ SubmitAnswer(g, u, q, a, t)
           /\ HasParticipant(participants, g, u)
           /\ Completes(g, u))
          => users'[u] =
                [totalPoints |-> users[u].totalPoints
                                    + SumPoints(getGameAnswers(answers', g, u)),
                 questionsAnswered |-> users[u].questionsAnswered
                                          + games[g].totalQuestions,
                 gamesPlayed |-> users[u].gamesPlayed + 1,
                 currentStreak |-> users[u].currentStreak + 1,
                 bestStreak |-> Max(users[u].bestStreak,
                                    users[u].currentStreak + 1)]]_vars

\* C6: startGame on a game whose status is not waiting fails, leaves the
\* game's status, startedAt and currentQuestion as they were and broadcasts
\* nothing.
C6_StartNeedsWaiting ==
    [][\A g \in DOMAIN games :
          (StartGame(g) /\ games[g].status # "waiting")
          => /\ resp'.code # 200
             /\ games'[g] = games[g]
             /\ inbox' = inbox]_vars

\* C7: a game's status only moves forward along waiting -> active ->
\* completed: an active game never returns to waiting, a completed game stays
\* completed.
C7_StatusMovesForward ==
    [][\A g \in DOMAIN games :
          /\ games[g].status = "active" => games'[g].status # "waiting"
          /\ games[g].status = "completed" => games'[g].status = "completed"]_vars

GameStartedCount(s, gameId) ==
    Len(SelectSeq(inbox[s],
                  LAMBDA m : /\ m.type = "game_started"
                             /\ m.game # Undefined
                             /\ m.game.game.id = gameId))

\* C8: of two startGame requests served concurrently for the same waiting
\* game at most one succeeds, startedAt is written by one of them only, and
\* no connection receives game_started twice.
C8_ConcurrentStartOnce ==
    \A r1, r2 \in Slots :
        (/\ r1 # r2
         /\ reqs[r1].op = "start" /\ reqs[r1].pc = "done"
         /\ reqs[r2].op = "start" /\ reqs[r2].pc = "done"
         /\ reqs[r1].gameId = reqs[r2].gameId
         /\ reqs[r1].gameId \in DOMAIN games)
        => /\ ~(reqs[r1].code = 200 /\ reqs[r2].code = 200)
           /\ ~(reqs[r1].startedAt # 0 /\ reqs[r2].startedAt # 0)
           /\ \A s \in Socks : GameStartedCount(s, reqs[r1].gameId) <= 1

\* C9: of two submitAnswer requests served concurrently for the same (gameId,
\* userId, questionId) at most one is accepted: one Answer row is appended and
\* the participant's score holds that question's points once.
C9_ConcurrentAnswerOnce ==
    \A r1, r2 \in Slots :
        (/\ r1 # r2
         /\ reqs[r1].op = "answer" /\ reqs[r1].pc = "done"
         /\ reqs[r2].op = "answer" /\ reqs[r2].pc = "done"
         /\ SameKey(reqs[r1], reqs[r2]))
        => /\ ~(reqs[r1].code = 200 /\ reqs[r2].code = 200)
           /\ Len(SelectSeq(answers, LAMBDA a : SameKey(a, reqs[r1]))) <= 1
           /\ \A i \in DOMAIN participants :
                 (participants[i].gameId = reqs[r1].gameId
                    /\ participants[i].userId = reqs[r1].userId)
                 => participants[i].score <= QuestionBank[reqs[r1].questionId].points

NoAnswerKey(question) ==
    /\ "correctAnswer" \notin DOMAIN question
    /\ "explanation" \notin DOMAIN question

Targets(gameId, excludeConnectionId) ==
    {s \in Socks :
        /\ sockets[s].state = "open"
        /\ \E c \in DOMAIN connections :
              /\ c # excludeConnectionId
              /\ connections[c].ws = s
              /\ connections[c].gameId = gameId}

Delivered(message, targets) ==
    \A s \in Socks :
        inbox'[s] = IF s \in targets THEN Append(inbox[s], message) ELSE inbox[s]

Registered(s) == \E c \in DOMAIN connections : connections[c].ws = s

BoundSocket(s, gameId) ==
    \E c \in DOMAIN connections :
        connections[c].ws = s /\ connections[c].gameId = gameId

HasMessage(s, type) == \E k \in DOMAIN inbox[s] : inbox[s][k].type = type

\* C12: every broadcast (player_joined of a join, game_started of a start, the
\* payload of a game_update) is sent once to each open socket registered with
\* the broadcast's game as its binding, the excluded id apart, and to no other
\* socket: sockets bound to another game, unbound, unregistered or not open
\* receive nothing.
C12_BroadcastReachesExactlyTheBound ==
    [][/\ \A g \in GameIds :
             (JoinGame(g, 1) /\ resp'.code = 201)
             => Delivered(PlayerJoinedMessage(
                              ParticipantRow([gameId |-> g, userId |-> 1]),
                              users[1]),
                          Targets(g, 0))
       /\ \A g \in GameIds :
             StartGame(g)
             => Delivered(GameStartedMessage(getGameWithDetails(games', g)),
                          Targets(g, 0))
       /\ \A s \in Socks, payload \in Payloads :
             WsGameUpdate(s, payload)
             => IF sockets[s].cid \in DOMAIN connections
                   /\ connections[sockets[s].cid].gameId # 0
                THEN Delivered(payload,
                               Targets(connections[sockets[s].cid].gameId,
                                       sockets[s].cid))
                ELSE inbox' = inbox]_vars

\* C12: of two open sockets registered under ids of their own, one bound to
\* game 1 and one to game 2, the first has been sent game_started and the
\* second nothing.
C12_Witness ==
    \E s1, s2 \in Socks :
        /\ sockets[s1].state = "open" /\ sockets[s2].state = "open"
        /\ sockets[s1].cid # sockets[s2].cid
        /\ BoundSocket(s1, 1) /\ BoundSocket(s2, 2)
        /\ HasMessage(s1, "game_started")
        /\ inbox[s2] = <<>>

\* C13: a join that inserted its participant answers 201 and a start that
\* updated its game answers 200 whatever the state of the bound sockets, and
\* every open socket bound to the game is sent the event even when another
\* bound socket is no longer open.
C13_BroadcastNeverFailsRequest ==
    [][\A g \in GameIds :
          /\ (JoinGame(g, 1) /\ participants' # participants)
             => /\ resp'.code = 201
                /\ \A s \in Targets(g, 0) : Len(inbox'[s]) = Len(inbox[s]) + 1
          /\ (StartGame(g) /\ g \in DOMAIN games)
             => /\ resp'.code = 200
                /\ \A s \in Targets(g, 0) : Len(inbox'[s]) = Len(inbox[s]) + 1]_vars

\* C13: a start has answered 200 with two sockets bound to game 1, one that
\* lost its transport and was sent nothing, one open that holds game_started.
C13_Witness ==
    \E s1, s2 \in Socks :
        /\ sockets[s1].state = "closing" /\ BoundSocket(s1, 1)
        /\ inbox[s1] = <<>>
        /\ sockets[s2].state = "open" /\ BoundSocket(s2, 1)
        /\ HasMessage(s2, "game_started")
        /\ resp = [op |-> "start", code |-> 200]

\* C14: a join_game on an open connection leaves that connection registered
\* with the userId and gameId of the message, and a join_game repeating the
\* binding the connection already has changes nothing.
C14_LastBindWins ==
    [][\A s \in Socks, b \in Binds :
          (WsJoinGame(s, b.userId, b.gameId) /\ sockets[s].state = "open")
          => /\ \E c \in DOMAIN connections' :
                    /\ connections'[c].ws = s
                    /\ connections'[c].userId = b.userId
                    /\ connections'[c].gameId = b.gameId
             /\ (\E c \in DOMAIN connections :
                    /\ connections[c].ws = s
                    /\ connections[c].userId = b.userId
                    /\ connections[c].gameId = b.gameId)
                => connections' = connections]_vars

\* C15: a socket that has emitted 'close' has no entry in the registry, gets
\* none back, and is sent nothing more.
C15_ClosedStaysOut ==
    [][\A s \in Socks :
          /\ sockets'[s].state = "closed"
             => ~\E c \in DOMAIN connections' : connections'[c].ws = s
          /\ sockets[s].state = "closed" => inbox'[s] = inbox[s]]_vars

\* C15: a socket that was bound and sent an event has closed and left the
\* registry, and the other socket has since been sent more than it.
C15_Witness ==
    \E s1, s2 \in Socks :
        /\ sockets[s1].state = "closed" /\ ~Registered(s1)
        /\ Len(inbox[s1]) = 1
        /\ sockets[s2].state = "open" /\ Registered(s2)
        /\ sockets[s1].cid # sockets[s2].cid
        /\ Len(inbox[s2]) = 2

\* C16: in every reachable state the game_participants table holds at most one
\* row for each (gameId, userId).
C16_OneParticipantPerPair ==
    \A i, j \in DOMAIN participants :
        (participants[i].gameId = participants[j].gameId
           /\ participants[i].userId = participants[j].userId)
        => i = j

\* C17: in every reachable state no game has more Participant rows than its
\* maxPlayers.
C17_AtMostMaxPlayers ==
    \A g \in DOMAIN games :
        Len(getGameParticipants(participants, g)) <= games[g].maxPlayers

InQuestionSet(gameId, questionId) ==
    \E k \in DOMAIN gameQuestions :
        /\ gameQuestions[k].gameId = gameId
        /\ gameQuestions[k].questionId = questionId

\* C18: a submitAnswer naming a question that is not among the GameQuestion
\* rows of its game answers 404 and appends no Answer row, also when the
\* question is in the question bank.
C18_ForeignQuestionNotFound ==
    [][\A g \in DOMAIN games, u \in Users, q \in QuestionInputs,
          a \in Options, t \in TimeSpents :
          (SubmitAnswer(g, u, q, a, t) /\ ~InQuestionSet(g, q))
          => /\ resp'.code = 404
             /\ answers' = answers]_vars

\* C19: the Answer row and the response of an accepted submitAnswer carry
\* isCorrect = (selectedAnswer is the very string correctAnswer) and
\* pointsEarned = the question's points if isCorrect, else 0, and every Answer
\* row for the same question with the same selectedAnswer carries the same
\* two values whatever its timeSpent.
C19_ScoringIsExactAndTimeless ==
    [][\A g \in DOMAIN games, q \in QuestionIds, a \in AnswerInputs,
          t \in TimeSpentInputs :
          (SubmitAnswer(g, 1, q, a, t) /\ resp'.code = 200)
          => LET row == answers'[Len(answers')]
                 correct == a = QuestionBank[q].correctAnswer
             IN  /\ row.isCorrect = correct
                 /\ row.pointsEarned = (IF correct THEN QuestionBank[q].points ELSE 0)
                 /\ resp'.isCorrect = correct
                 /\ resp'.pointsEarned = row.pointsEarned
                 /\ \A i \in DOMAIN answers' :
                       (answers'[i].questionId = q /\ answers'[i].selectedAnswer = a)
                       => /\ answers'[i].isCorrect = row.isCorrect
                          /\ answers'[i].pointsEarned = row.pointsEarned]_vars

\* C19: the log holds the right answer to question 1 given after 3 and after
\* 30 seconds, both worth the question's points, and the same letter in lower
\* case, worth nothing.
C19_Witness ==
    \E i, j, k \in DOMAIN answers :
        /\ answers[i].questionId = 1 /\ answers[i].selectedAnswer = "A"
        /\ answers[i].timeSpent = 3 /\ answers[i].pointsEarned = DefaultPoints
        /\ answers[j].questionId = 1 /\ answers[j].selectedAnswer = "A"
        /\ answers[j].timeSpent = 30 /\ answers[j].pointsEarned = DefaultPoints
        /\ answers[k].questionId = 1 /\ answers[k].selectedAnswer = "a"
        /\ ~answers[k].isCorrect /\ answers[k].pointsEarned = 0

Answered(userId, questionId) ==
    \E i \in DOMAIN answers :
        answers[i].userId = userId /\ answers[i].questionId = questionId

\* C11: whoever of the users the caller is, a question listing or a game
\* detail shows correctAnswer or explanation only of questions the caller has
\* an Answer row for; a submitAnswer shows them only with the caller's Answer
\* row recorded and sends nothing to any socket; no event on any socket
\* carries them.
C11_KeyOnlyToTheAnswerer ==
    [][/\ \A caller \in Users, c \in Cultures, k \in Categories,
             d \in Difficulties, l \in Limits :
             (resp'.op = "random" /\ GetRandomQuestions(c, k, d, l, resp'.questions))
             => \A n \in DOMAIN resp'.questions :
                   NoAnswerKey(resp'.questions[n])
                   \/ Answered(caller, resp'.questions[n].id)
       /\ \A caller \in Users, g \in GameIds :
             (GetGame(g) /\ resp'.code = 200)
             => \A n \in DOMAIN resp'.game.questions :
                   NoAnswerKey(resp'.game.questions[n])
                   \/ Answered(caller, resp'.game.questions[n].id)
       /\ \A g \in DOMAIN games, q \in QuestionIds, a \in Options,
             t \in TimeSpents :
             SubmitAnswer(g, 1, q, a, t)
             => /\ inbox' = inbox
                /\ NoAnswerKey(resp')
                   \/ \E i \in DOMAIN answers' :
                         SameKey(answers'[i],
                                 [gameId |-> g, userId |-> 1, questionId |-> q])
       /\ \A s \in Socks : \A n \in DOMAIN inbox'[s] :
             /\ NoAnswerKey(inbox'[s][n])
             /\ inbox'[s][n].type = "game_started"
                => NoAnswerKey(inbox'[s][n].question)]_vars

\* What the caller supplied, as against what getRandomQuestions makes of it.
MatchesSupplied(question, culture, category, difficulty) ==
    /\ culture # <<>> => question.cultureId = culture[1]
    /\ category # <<>> => question.categoryId = category[1]
    /\ difficulty # <<>> => question.difficulty = difficulty[1]

\* C20: a question listing under filters and a count answers 200 with
\* min(count, number of questions matching every supplied filter) questions,
\* pairwise distinct, each matching every supplied filter.
C20_SelectsDistinctMatches ==
    [][\A c \in Cultures, k \in Categories, d \in Difficulties, l \in Limits :
          (resp'.op = "random" /\ GetRandomQuestions(c, k, d, l, resp'.questions))
          => LET questions == resp'.questions
                 matches == {q \in QuestionIds :
                                MatchesSupplied(QuestionBank[q], c, k, d)}
             IN  /\ resp'.code = 200
                 /\ Len(questions) = Min(LimitOrTen(l), Cardinality(matches))
                 /\ \A i, j \in DOMAIN questions :
                       i # j => questions[i].id # questions[j].id
                 /\ \A i \in DOMAIN questions :
                       MatchesSupplied(questions[i], c, k, d)]_vars

OrderIndexes(tbl, gameId) ==
    {tbl[k].orderIndex : k \in {n \in DOMAIN tbl : tbl[n].gameId = gameId}}

\* C21: the GameQuestion rows of every game carry the orderIndex values
\* 0..k-1, each once, and no step changes the rows of a game that exists.
C21_OrderIndexFixed ==
    [][/\ \A g \in DOMAIN games' :
             LET rows == getGameQuestions(gameQuestions', g)
             IN  /\ OrderIndexes(gameQuestions', g) = 0..(Len(rows) - 1)
                 /\ \A i, j \in DOMAIN rows :
                       rows[i].orderIndex = rows[j].orderIndex => i = j
       /\ \A g \in DOMAIN games :
             getGameQuestions(gameQuestions', g) = getGameQuestions(gameQuestions, g)]_vars

\* C21: a game of two questions, numbered 0 and 1, has been joined, started
\* and answered.
C21_Witness ==
    /\ games # <<>>
    /\ games[1].status = "active"
    /\ OrderIndexes(gameQuestions, 1) = {0, 1}
    /\ HasParticipant(participants, 1, 1)
    /\ answers # <<>>

\* C22: a createGame that answers 201 leaves a game with status waiting,
\* currentQuestion 0, no startedAt and no completedAt, whatever the request
\* held, and the game's GameQuestion rows are there when it answers.
C22_CreatedWaiting ==
    [][\A gameData \in GameDatas, qs \in DrawInputs :
          (CreateGame(gameData, qs) /\ resp'.code = 201)
          => LET game == games'[Len(games')]
             IN  /\ game.status = "waiting"
                 /\ game.currentQuestion = 0
                 /\ game.startedAt = 0
                 /\ game.completedAt = 0
                 /\ Len(getGameQuestions(gameQuestions', game.id)) = Len(qs)
                 /\ resp'.questionsCount = Len(qs)]_vars

\* C27: a createGame that answers an error leaves the games and the
\* game_questions tables as they were.
C27_RejectedCreateChangesNothing ==
    [][(resp'.op = "create" /\ resp'.code # 201
          /\ \E gameData \in GameDatas :
                \/ CreateGameFailsToMaterialize(gameData)
                \/ \E qs \in DrawInputs : CreateGame(gameData, qs))
       => /\ games' = games
          /\ gameQuestions' = gameQuestions]_vars

ParticipantOf(tbl, gameId, userId) ==
    tbl[CHOOSE i \in DOMAIN tbl : tbl[i].gameId = gameId /\ tbl[i].userId = userId]

\* The game of the end-to-end trace, joined by user 1 and started.
TraceReady ==
    /\ games # <<>>
    /\ games[1].totalQuestions = 2
    /\ games[1].status = "active"
    /\ HasParticipant(participants, 1, 1)

\* C23: in a started game of two questions joined by user 1, the right answer
\* to question 1 as the user's first answer is answered {isCorrect: true,
\* pointsEarned: 10} and leaves the score at 10; the wrong answer to question 2
\* following it is answered {isCorrect: false, pointsEarned: 0}, leaves the
\* score at 10, sets the participant's completedAt and adds 10 to the user's
\* totalPoints, 1 to gamesPlayed and to currentStreak, with bestStreak the
\* larger of its old value and the new currentStreak.
C23_EndToEnd ==
    [][\A t \in TimeSpents :
          /\ (TraceReady /\ getGameAnswers(answers, 1, 1) = <<>>
                 /\ SubmitAnswer(1, 1, 1, "A", t))
             => /\ resp'.isCorrect /\ resp'.pointsEarned = 10
                /\ ParticipantOf(participants', 1, 1).score = 10
          /\ (TraceReady /\ getGameAnswers(answers, 1, 1) = <<AnswerData(1, 1, 1, "A", t)>>
                 /\ SubmitAnswer(1, 1, 2, "A", t))
             => /\ ~resp'.isCorrect /\ resp'.pointsEarned = 0
                /\ ParticipantOf(participants', 1, 1).score = 10
                /\ ParticipantOf(participants', 1, 1).completedAt # 0
                /\ users'[1].totalPoints = users[1].totalPoints + 10
                /\ users'[1].gamesPlayed = users[1].gamesPlayed + 1
                /\ users'[1].currentStreak = users[1].currentStreak + 1
                /\ users'[1].bestStreak = Max(users[1].bestStreak,
                                              users[1].currentStreak + 1)]_vars

\* C28: after a submitAnswer of a participant the participant's completedAt
\* is set exactly if the participant's Answer rows for the game number
\* game.totalQuestions or more.
C28_CompletedAtWhenDone ==
    [][\A g \in DOMAIN games, u \in Users, q \in QuestionInputs, a \in Options,
          t \in TimeSpents :
          (/\ SubmitAnswer(g, u, q, a, t)
           /\ resp'.code = 200
           /\ HasParticipant(participants, g, u))
          => \A i \in DOMAIN participants' :
                (participants'[i].gameId = g /\ participants'[i].userId = u)
                => ((participants'[i].completedAt # 0)
                      <=> AnsweredCount(answers', g, u) >= games[g].totalQuestions)]_vars

\* C29: after an accepted submitAnswer of a participant the participant's
\* correctAnswers is the number of the participant's Answer rows for the game
\* with isCorrect true, and at most the number of those rows.
C29_CorrectAnswersCounted ==
    [][\A g \in DOMAIN games, u \in Users, q \in QuestionInputs, a \in Options,
          t \in TimeSpents :
          (SubmitAnswer(g, u, q, a, t) /\ resp'.code = 200)
          => \A i \in DOMAIN participants' :
                (participants'[i].gameId = g /\ participants'[i].userId = u)
                => /\ participants'[i].correctAnswers =
                         Len(SelectSeq(getGameAnswers(answers', g, u),
                                       LAMBDA row : row.isCorrect))
                   /\ participants'[i].correctAnswers <= AnsweredCount(answers', g, u)]_vars

\* C24: a frame that is no JSON or carries an unknown type leaves the
\* registry, every binding in it, every inbox and the socket as they were, so
\* the connection's handler goes on serving the frames that follow.
C24_MalformedIsIgnored ==
    [][\A s \in Socks :
          WsOtherMessage(s)
          => /\ connections' = connections
             /\ inbox' = inbox
             /\ sockets'[s] = sockets[s]
             /\ Registered(s) => Registered(s)']_vars

\* C24: an open, registered connection bound to game 1, with an event in its
\* inbox, whose handler takes frames.
C24_Witness ==
    \E s \in Socks :
        /\ sockets[s].state = "open"
        /\ Registered(s)
        /\ BoundSocket(s, 1)
        /\ HasMessage(s, "player_joined")
        /\ ENABLED WsOtherMessage(s)

\* C26: every step leaves the messages a socket was sent where they are and
\* puts a new one behind them, so a socket holds the events of its game in the
\* order their broadcasts were made.
C26_OrderPerConnection ==
    [][\A s \in Socks :
          \/ inbox'[s] = inbox[s]
          \/ /\ Len(inbox'[s]) = Len(inbox[s]) + 1
             /\ SubSeq(inbox'[s], 1, Len(inbox[s])) = inbox[s]]_vars

\* C26: a socket bound to game 1 holds player_joined and, behind it, the
\* game_started of the start that followed the join.
C26_Witness ==
    \E s \in Socks :
        /\ Len(inbox[s]) = 2
        /\ inbox[s][1].type = "player_joined"
        /\ inbox[s][2].type = "game_started"
        /\ Len(inbox[s][2].game.participants) = 1

\* C25: a game_update of an open connection goes, payload unchanged, to every
\* other open connection bound to the sender's game and to no one else, the
\* sender least of all; the game_update of a connection bound to no game
\* goes to no one.
C25_UpdateReachesTheOthers ==
    [][\A s \in Socks, payload \in Payloads :
          (WsGameUpdate(s, payload) /\ sockets[s].state = "open")
          => IF \E g \in GameIds : BoundSocket(s, g)
             THEN \A s2 \in Socks :
                     inbox'[s2] =
                        IF /\ s2 # s
                           /\ sockets[s2].state = "open"
                           /\ \E g \in GameIds : BoundSocket(s, g) /\ BoundSocket(s2, g)
                        THEN Append(inbox[s2], payload)
                        ELSE inbox[s2]
             ELSE inbox' = inbox]_vars

\* C30: when two submitAnswer requests served concurrently have each
\* completed another game of user 1, who had played none, the user's
\* gamesPlayed and currentStreak are 2 and totalPoints is the sum of the two
\* participants' scores.
C30_BothCompletionsCounted ==
    (/\ reqs[1].op = "answer" /\ reqs[1].pc = "done" /\ reqs[1].code = 200
     /\ reqs[2].op = "answer" /\ reqs[2].pc = "done" /\ reqs[2].code = 200
     /\ reqs[1].gameId # reqs[2].gameId)
    => /\ users[1].gamesPlayed = 2
       /\ users[1].currentStreak = 2
       /\ users[1].totalPoints =
             ParticipantOf(participants, reqs[1].gameId, 1).score
             + ParticipantOf(participants, reqs[2].gameId, 1).score

\* C31: a join naming a game and a user that exist answers 201, adds the
\* Participant and sends player_joined to the open sockets bound to the game,
\* whether the game is waiting, active or completed.
C31_JoinWhateverTheStatus ==
    [][\A g \in DOMAIN games, u \in Users :
          JoinGame(g, u)
          => /\ resp'.code = 201
             /\ participants' =
                   Append(participants, ParticipantRow([gameId |-> g, userId |-> u]))
             /\ \A s \in Targets(g, 0) :
                   /\ Len(inbox'[s]) = Len(inbox[s]) + 1
                   /\ inbox'[s][Len(inbox'[s])].type = "player_joined"]_vars

\* C31: a completed game has a Participant, and a socket bound to it holds
\* the player_joined of the join.
C31_Witness ==
    /\ games # <<>>
    /\ games[1].status = "completed"
    /\ HasParticipant(participants, 1, 1)
    /\ \E s \in Socks : BoundSocket(s, 1) /\ HasMessage(s, "player_joined")

\* C32: starting a game that does not exist is answered with an error and
\* sends no game_started to anyone.
C32_StartOfNoGameIsAnError ==
    [][\A g \in GameIds :
          (StartGame(g) /\ g \notin DOMAIN games)
          => (resp'.code # 200 /\ inbox' = inbox)]_vars

\* C33: an answer submitted by a user who has no Participant in the game
\* appends no Answer and leaves the user's aggregate alone.
C33_NoParticipantNoAnswer ==
    [][\A g \in DOMAIN games, u \in Users, q \in QuestionIds,
         a \in Options, t \in TimeSpents :
          (SubmitAnswer(g, u, q, a, t) /\ ~HasParticipant(participants, g, u))
          => (answers' = answers /\ users' = users)]_vars

\* C34: an answer submitted while the game is not active appends no Answer
\* and changes no score and no user aggregate.
C34_AnswersOnlyWhileActive ==
    [][\A g \in DOMAIN games, u \in Users, q \in QuestionIds,
         a \in Options, t \in TimeSpents :
          (SubmitAnswer(g, u, q, a, t) /\ games[g].status # "active")
          => UNCHANGED <<answers, participants, users>>]_vars

\* The GameQuestion rows of a game that carry orderIndex 0.
FirstRows(gameId) ==
    SelectSeq(getGameQuestions(gameQuestions, gameId), LAMBDA gq : gq.orderIndex = 0)

\* C35: when a game with at least one materialized question is started, the
\* game_started sent to each bound open socket carries a question, and it is
\* the game's GameQuestion with orderIndex 0.
C35_StartedCarriesTheFirstQuestion ==
    [][\A g \in DOMAIN games :
          (StartGame(g) /\ getGameQuestions(gameQuestions, g) # <<>>)
          => \A s \in Targets(g, 0) :
                LET m == inbox'[s][Len(inbox'[s])]
                IN  /\ Len(inbox'[s]) = Len(inbox[s]) + 1
                    /\ m.type = "game_started"
                    /\ m.question # Undefined
                    /\ m.question.orderIndex = 0
                    /\ Len(FirstRows(g)) = 1
                    /\ m.question.id = FirstRows(g)[1].questionId]_vars

\* C35: a game of two questions has been started and a socket bound to it
\* holds game_started with the question of orderIndex 0.
C35_Witness ==
    \E s \in Socks : \E k \in DOMAIN inbox[s] :
        /\ inbox[s][k].type = "game_started"
        /\ inbox[s][k].game # Undefined
        /\ Len(getGameQuestions(gameQuestions, inbox[s][k].game.game.id)) = 2
        /\ inbox[s][k].question # Undefined
        /\ inbox[s][k].question.orderIndex = 0
        /\ inbox[s][k].question.id = FirstRows(inbox[s][k].game.game.id)[1].questionId

\* C36: a user's bestStreak is never below the user's currentStreak.
C36_BestStreakCoversCurrent ==
    \A u \in DOMAIN users : users[u].bestStreak >= users[u].currentStreak

\* C36: two completing answers of one user have been served, one after the
\* other's write, and the user's streak stands at 2.
C36_Witness ==
    /\ \A r \in Slots : reqs[r].op = "answer" /\ reqs[r].pc = "done"
    /\ \E u \in DOMAIN users : users[u].currentStreak = 2 /\ users[u].bestStreak = 2

\* C37: every open socket is registered, under an id that is its own.
C37_EveryLiveConnectionHasItsEntry ==
    \A s \in Socks : sockets[s].state = "open" => Registered(s)

====
